---- MODULE Spec2Model ----
(***************************************************************************)
(* Model of the ReMakeplace updater (src/updater.py): the version check,   *)
(* the download into update_cache, and install_update's backup / extract / *)
(* restore of the preserve_folders, with the files the program keeps on    *)
(* disk (config.json, update_cache, temp_backup, the installation).        *)
(***************************************************************************)
EXTENDS Integers, FiniteSets, Sequences, TLC

\* ---- bounds ----
NumFolders == 1      \* entries of config["preserve_folders"]
MaxVersion == 2      \* highest version the release feed advertises
MaxPart == 1         \* highest major, minor or patch number (SpecVersion)
NumPaths == 2        \* installation directories to choose from (SpecSettings)

PreserveFolders == 1..NumFolders
\* A preserved directory is represented by one file name below it: the file
\* is missing, holds user content or holds archive content.
Files == {"data"}
FeedVersions == 1..MaxVersion
NoVersion == 0 - 1   \* None (latest_version / download_url before a check)
\* config.json between open(..., "w") and the end of json.dump: empty or cut
\* short, not a JSON document.
Truncated == 0 - 2

\* ---- directory trees ----
\* A path is absent, a regular file, or a directory of regular files.
\* "user" is content written by the user, "pkg" content written by an archive.
Contents == {"user", "pkg"}
NoFiles == [f \in Files |-> "none"]
Absent == [kind |-> "absent", val |-> "none", files |-> NoFiles]
FileNode(v) == [kind |-> "file", val |-> v, files |-> NoFiles]
DirNode(fs) == [kind |-> "dir", val |-> "none", files |-> fs]
Nodes == {Absent} \cup {FileNode(v) : v \in Contents}
            \cup {DirNode(fs) : fs \in [Files -> Contents \cup {"none"}]}
UserNodes == {Absent, FileNode("user")}
            \cup {DirNode(fs) : fs \in [Files -> {"user", "none"}]}
Trees == [PreserveFolders -> Nodes]
EmptyTree == [p \in PreserveFolders |-> Absent]

\* Path.exists()
Exists(n) == n.kind # "absent"

\* shutil.copytree(src, dst, dirs_exist_ok=exist_ok): raises when src is not a
\* directory, or when dst exists and is a file (or exist_ok is False);
\* otherwise dst becomes src merged over what dst already held.
CopyTreeRaises(src, dst, exist_ok) ==
    \/ src.kind # "dir"
    \/ dst.kind = "file"
    \/ dst.kind = "dir" /\ ~exist_ok
CopyTree(src, dst) ==
    DirNode([f \in Files |-> IF src.files[f] # "none" THEN src.files[f]
                             ELSE dst.files[f]])

\* shutil.rmtree(path) without ignore_errors raises on a regular file.
RmTreeRaises(n) == n.kind = "file"

\* ---- install_update: backup loop (lines 639-644), folders in list order ----
\* Result: ok = FALSE when a copytree raised; hold = temp_backup afterwards.
RECURSIVE BackupFrom(_, _, _)
BackupFrom(i, inst, hold) ==
    IF i > NumFolders THEN [ok |-> TRUE, hold |-> hold]
    ELSE IF ~Exists(inst[i]) THEN BackupFrom(i + 1, inst, hold)
    ELSE IF CopyTreeRaises(inst[i], hold[i], TRUE)
         THEN [ok |-> FALSE, hold |-> hold]
    ELSE BackupFrom(i + 1, inst,
                    [hold EXCEPT ![i] = CopyTree(inst[i], hold[i])])

\* ---- install_update: restore loop (lines 711-717) ----
\* Result: ok = FALSE when rmtree or copytree raised; inst = installation
\* directory afterwards (folders before the failing one are already restored).
\* in_use: a file under the installation directory is held open by another
\* program, so that rmtree raises an OSError on the first directory it is
\* called on.
RECURSIVE RestoreFrom(_, _, _, _)
RestoreFrom(i, inst, hold, in_use) ==
    IF i > NumFolders THEN [ok |-> TRUE, inst |-> inst]
    ELSE IF ~Exists(hold[i]) THEN RestoreFrom(i + 1, inst, hold, in_use)
    ELSE IF Exists(inst[i]) /\ (RmTreeRaises(inst[i]) \/ in_use)
         THEN [ok |-> FALSE, inst |-> inst]
    ELSE IF CopyTreeRaises(hold[i], Absent, FALSE)
         THEN [ok |-> FALSE, inst |-> [inst EXCEPT ![i] = Absent]]
    ELSE RestoreFrom(i + 1,
                     [inst EXCEPT ![i] = CopyTree(hold[i], Absent)], hold,
                     in_use)

\* ---- archives ----
\* What the archive holds at each preserved path: nothing, a directory with
\* one file, or a regular file.
PkgKinds == {"absent", "dir", "file"}
Packages == [PreserveFolders -> PkgKinds]
NoPackage == [p \in PreserveFolders |-> "absent"]
PkgFiles == [f \in Files |-> "pkg"]
PkgNode(k) == IF k = "dir" THEN DirNode(PkgFiles)
              ELSE IF k = "file" THEN FileNode("pkg")
              ELSE Absent

\* extractall / "7z x -y" of one archive entry over what is at the path:
\* files are overwritten, directories are merged, and a directory cannot
\* replace a file nor a file a directory.
ExtractConflict(cur, k) ==
    \/ k = "dir" /\ cur.kind = "file"
    \/ k = "file" /\ cur.kind = "dir"
ExtractNode(cur, k) ==
    IF k = "absent" THEN cur
    ELSE IF k = "file" THEN FileNode("pkg")
    ELSE CopyTree(PkgNode(k), cur)

\* Installation directory after a backend wrote the entries W of archive pk.
ExtractInto(inst, pk, W) ==
    [p \in PreserveFolders |-> IF p \in W THEN ExtractNode(inst[p], pk[p])
                               ELSE inst[p]]
\* Entries a backend can have written: all of them when it succeeds, any set
\* of non-conflicting ones when it fails part-way.
Writable(inst, pk) == {p \in PreserveFolders : ~ExtractConflict(inst[p], pk[p])}
BackendOutcomes(inst, pk) ==
    {[ok |-> FALSE, W |-> W] : W \in SUBSET Writable(inst, pk)}
    \cup (IF Writable(inst, pk) = PreserveFolders
          THEN {[ok |-> TRUE, W |-> PreserveFolders]} ELSE {})

\* ---- update_cache ----
\* One cache file per version (cache_filepath, line 501): "none" = no file,
\* "partial" = a file holding only part of the asset, "complete" = all of it.
CacheStates == {"none", "partial", "complete"}
EmptyCache == [v \in FeedVersions |-> "none"]

\* Faulty variant of CacheHit: the existence test is lost and every run
\* downloads.
CacheHitNever(c, v) == FALSE

\* cache_filepath.exists() (line 504)
CacheHit(c, v) == c[v] # "none"

\* Faulty variant of RemoveIncomplete: the whole cache is emptied.
RemoveIncompleteAll(c, v) == [w \in FeedVersions |-> "none"]

\* Faulty variant of RemoveIncomplete: the partial file is left in place.
RemoveIncompleteSkipped(c, v) == c

\* download_file's except branch (lines 609-613): unlink the destination.
RemoveIncomplete(c, v) == [c EXCEPT ![v] = "none"]

\* Faulty variant of CleanupCache: the file of the version to keep goes too.
CleanupCacheIgnoresKeep(c, latest, keep_current) ==
    [v \in FeedVersions |-> "none"]

\* Faulty variant of CleanupCache: the current version's file is always kept.
CleanupCacheKeepsCurrent(c, latest, keep_current) ==
    [v \in FeedVersions |-> IF v = latest THEN c[v] ELSE "none"]

\* cleanup_cache (lines 537-574): unlink every file, except those whose name
\* starts with v<latest_version>_ when keep_current is set.
CleanupCache(c, latest, keep_current) ==
    [v \in FeedVersions |-> IF keep_current /\ v = latest THEN c[v] ELSE "none"]

\* cleanup_cache, the directory (lines 540-541, 559-568): whether update_cache
\* exists afterwards.  It is removed only under keep_current = False and only
\* when no entry is left in it.
CleanupCacheDir(c, dir, latest, keep_current) ==
    /\ dir
    /\ \/ keep_current
       \/ \E v \in FeedVersions :
             CleanupCache(c, latest, keep_current)[v] # "none"

\* Faulty variant of ExtractionErrorMsg: py7zr's message is always appended.
ExtractionErrorMsgAlways(bcj2) ==
    {"Update failed", "Installation failed", "hint", "py7zr"}

\* ---- error text of install_update when no backend succeeded (703-706) ----
\* The parts of the message: the remediation hint always, py7zr's own message
\* only when it mentions BCJ2.
ExtractionErrorMsg(bcj2) ==
    {"Update failed", "Installation failed", "hint"}
        \cup (IF bcj2 THEN {"py7zr"} ELSE {})

VARIABLES
    alive,             \* the process (and its Tk main loop) is running
    configFile,        \* config.json: current_version
    cache,             \* update_cache: FeedVersions -> CacheStates
    cache_dir,         \* the update_cache directory exists
    installation,      \* preserve_folders under installation_path
    temp_backup,       \* the temp_backup directory's tree
    pkg,               \* entries of the archive being extracted
    config,            \* self.config["current_version"]
    update_available,  \* self.update_available
    latest_version,    \* self.latest_version
    download_url,      \* self.download_url (version of the asset, or None)
    update_button,     \* state of the update button
    launch_button,     \* state of the launch button
    status_label,      \* text of the status label
    checking,          \* check_thread is running
    events,            \* callbacks queued with root.after(0, ...)
    pc,                \* position of the download_and_install worker
    workers,           \* download_and_install threads started and not ended
    error_message,     \* parts of the message handed to show_error
    py7zr_bcj2,        \* 'BCJ2' in py7zr_error_msg
    attempts,          \* extraction backends run in this run, with result
    pre,               \* installation when the run was started
    downloaded,        \* download_file was called in this run
    outcome,           \* "none", "running", "complete" or "failed"
    failStage          \* stage whose failure ended the run

vars == <<alive, configFile, cache, cache_dir, installation, temp_backup, pkg, config,
          update_available, latest_version, download_url, update_button,
          launch_button, status_label, checking, events, pc, workers,
          error_message,
          py7zr_bcj2, attempts, pre, downloaded, outcome, failStage>>

disk == <<configFile, cache, cache_dir, installation, temp_backup>>
ui == <<config, update_available, latest_version, download_url, update_button,
        launch_button, status_label, checking>>
run == <<error_message, py7zr_bcj2, attempts, pre, downloaded, outcome,
         failStage, pkg>>

\* State of a process that is not running: nothing in memory.
NoProcess ==
    /\ config = 0 /\ update_available = FALSE
    /\ latest_version = NoVersion /\ download_url = NoVersion
    /\ update_button = "disabled" /\ launch_button = "disabled"
    /\ status_label = "" /\ checking = FALSE
    /\ events = <<>> /\ pc = "idle" /\ workers = 0
    /\ error_message = {} /\ py7zr_bcj2 = FALSE /\ attempts = <<>>
    /\ pre = EmptyTree /\ downloaded = FALSE
    /\ outcome = "none" /\ failStage = "none"
    /\ pkg = NoPackage

\* The files on disk before the program first runs: config.json with version
\* "0.0.0" (load_config's default), no cache, no temp_backup, an installation
\* holding the user's data.
Init ==
    /\ alive = FALSE
    /\ configFile = 0
    /\ cache = EmptyCache /\ cache_dir = FALSE
    /\ installation \in [PreserveFolders -> UserNodes]
    /\ temp_backup = EmptyTree
    /\ NoProcess

\* version.parse(latest) > version.parse(current) (lines 468-471)
VersionGreater(a, b) == a > b

\* ---- main thread ----
\* __init__ (lines 24-56) with a configured installation path: load_config,
\* then create_ui and check_for_updates, which starts check_thread.  When
\* config.json is not a JSON document json.load raises and the process ends
\* before anything else happens.
Start ==
    /\ ~alive
    /\ configFile # Truncated
    /\ alive' = TRUE
    /\ config' = configFile
    /\ launch_button' = "normal"
    /\ status_label' = "Checking for updates"
    /\ checking' = TRUE
    /\ UNCHANGED <<update_available, latest_version, download_url,
                   update_button, events, pc, workers>>
    /\ UNCHANGED disk /\ UNCHANGED run

\* check_thread (lines 439-455): the feed answers with a tag and its assets;
\* download_url is assigned only when an asset name ends with ".7z".
CheckThreadOk ==
    /\ alive /\ checking
    /\ \E v \in FeedVersions, hasAsset \in BOOLEAN :
         /\ latest_version' = v
         /\ download_url' = IF hasAsset THEN v ELSE download_url
    /\ events' = Append(events, "update_ui_after_check")
    /\ checking' = FALSE
    /\ UNCHANGED <<alive, config, update_available, update_button,
                   launch_button, status_label, pc, workers>>
    /\ UNCHANGED disk /\ UNCHANGED run

\* Faulty variant of CheckFailedEvents: the exception is dropped silently.
CheckFailedEventsNone(q) == q

\* What check_thread's except branch queues for the main thread (lines
\* 457-460): the callback that shows the failure in the status label.
CheckFailedEvents(q) == Append(q, "check_failed")

\* check_thread's except branch (lines 457-460): the request, the status test
\* or the decoding of the answer raised.  update_ui_after_check is not queued,
\* so what the thread assigned before the exception is never looked at.
CheckThreadFails ==
    /\ alive /\ checking
    /\ checking' = FALSE
    /\ events' = CheckFailedEvents(events)
    /\ UNCHANGED <<alive, config, update_available, latest_version,
                   download_url, update_button, launch_button, status_label,
                   pc, workers>>
    /\ UNCHANGED disk /\ UNCHANGED run

\* The callback queued at lines 458-460.
CheckFailedStatus ==
    /\ alive /\ events # <<>> /\ Head(events) = "check_failed"
    /\ events' = Tail(events)
    /\ status_label' = "Failed to check for updates"
    /\ UNCHANGED <<alive, config, update_available, latest_version,
                   download_url, update_button, launch_button, checking, pc,
                   workers>>
    /\ UNCHANGED disk /\ UNCHANGED run

\* update_ui_after_check (lines 464-477)
UpdateUiAfterCheck ==
    /\ alive /\ events # <<>> /\ Head(events) = "update_ui_after_check"
    /\ events' = Tail(events)
    /\ IF VersionGreater(latest_version, config)
       THEN /\ update_available' = TRUE /\ update_button' = "normal"
            /\ status_label' = "New update available"
       ELSE /\ update_available' = update_available
            /\ update_button' = "disabled"
            /\ status_label' = "You're up to date"
    /\ UNCHANGED <<alive, config, latest_version, download_url, launch_button,
                   checking, pc, workers>>
    /\ UNCHANGED disk /\ UNCHANGED run

\* Faulty variant of StartUpdateButton: the button is left enabled.
StartUpdateButtonLeft == "normal"

\* State start_update gives the update button (line 486).
StartUpdateButton == "disabled"

\* Faulty variant of StartUpdateLaunchButton: the launch button stays enabled.
StartUpdateLaunchButtonLeft == "normal"

\* State start_update gives the launch button (line 487).
StartUpdateLaunchButton == "disabled"

\* Faulty variant of StartUpdateGuard: start_update goes on without an asset.
StartUpdateUnguarded(available, url) == available

\* start_update's early return (lines 481-482) is not taken.
StartUpdateGuard(available, url) == available /\ url # NoVersion

\* start_update (lines 479-490), invoked by the enabled update button.
StartUpdate ==
    /\ alive /\ update_button = "normal"
    /\ StartUpdateGuard(update_available, download_url)
    /\ update_button' = StartUpdateButton
    /\ launch_button' = StartUpdateLaunchButton
    /\ pc' = "start" /\ workers' = workers + 1
    /\ pre' = installation
    /\ outcome' = "running"
    /\ error_message' = {} /\ py7zr_bcj2' = FALSE /\ attempts' = <<>>
    /\ downloaded' = FALSE /\ failStage' = "none"
    /\ pkg' = NoPackage
    /\ UNCHANGED <<alive, config, update_available, latest_version,
                   download_url, status_label, checking, events>>
    /\ UNCHANGED disk

\* update_complete (lines 729-747): the last step prunes the cache with
\* keep_current=False.
UpdateComplete ==
    /\ alive /\ events # <<>> /\ Head(events) = "update_complete"
    /\ events' = Tail(events)
    /\ update_button' = "disabled"
    /\ launch_button' = "normal"
    /\ status_label' = "Update completed"
    /\ update_available' = FALSE
    /\ cache' = CleanupCache(cache, latest_version, FALSE)
    /\ cache_dir' = CleanupCacheDir(cache, cache_dir, latest_version, FALSE)
    /\ outcome' = "complete"
    /\ UNCHANGED <<alive, config, latest_version, download_url, checking, pc,
                   workers>>
    /\ UNCHANGED <<configFile, installation, temp_backup>>
    /\ UNCHANGED <<error_message, py7zr_bcj2, attempts, pre, downloaded,
                   failStage, pkg>>

\* show_error (lines 749-754)
ShowError ==
    /\ alive /\ events # <<>> /\ Head(events) = "show_error"
    /\ events' = Tail(events)
    /\ update_button' = IF update_available THEN "normal" ELSE "disabled"
    /\ launch_button' = "normal"
    /\ status_label' = "Error"
    /\ outcome' = "failed"
    /\ UNCHANGED <<alive, config, update_available, latest_version,
                   download_url, checking, pc, workers>>
    /\ UNCHANGED disk
    /\ UNCHANGED <<error_message, py7zr_bcj2, attempts, pre, downloaded,
                   failStage, pkg>>

\* The window is closed (or the process is killed): the daemon threads end
\* wherever they are, and only the files stay.
Quit ==
    /\ alive
    /\ alive' = FALSE
    /\ config' = 0 /\ update_available' = FALSE
    /\ latest_version' = NoVersion /\ download_url' = NoVersion
    /\ update_button' = "disabled" /\ launch_button' = "disabled"
    /\ status_label' = "" /\ checking' = FALSE
    /\ events' = <<>> /\ pc' = "idle" /\ workers' = 0
    /\ error_message' = {} /\ py7zr_bcj2' = FALSE /\ attempts' = <<>>
    /\ pre' = EmptyTree /\ downloaded' = FALSE
    /\ outcome' = "none" /\ failStage' = "none"
    /\ pkg' = NoPackage
    /\ UNCHANGED disk

\* launch_game (lines 756-768), invoked by the enabled launch button: the
\* game is started and the main loop ends, or show_error runs at once.
LaunchGame ==
    /\ alive /\ launch_button = "normal"
    /\ \E launched \in BOOLEAN :
         IF launched
         THEN Quit
         ELSE /\ update_button' =
                    IF update_available THEN "normal" ELSE "disabled"
              /\ launch_button' = "normal"
              /\ status_label' = "Error"
              /\ UNCHANGED <<alive, config, update_available, latest_version,
                             download_url, checking, events, pc, workers>>
              /\ UNCHANGED disk /\ UNCHANGED run

\* While the updater is not running the user (the game) adds or deletes a
\* file in a preserved directory.
UserEdit ==
    /\ ~alive
    /\ \E p \in PreserveFolders, f \in Files :
         /\ installation[p].kind = "dir"
         /\ installation' = [installation EXCEPT ![p].files[f] =
                IF installation[p].files[f] = "none" THEN "user" ELSE "none"]
    /\ UNCHANGED <<alive, configFile, cache, cache_dir, temp_backup>>
    /\ UNCHANGED ui /\ UNCHANGED <<events, pc, workers>> /\ UNCHANGED run

\* ---- worker thread: download_and_install ----
\* Faulty variant of AfterFailure: a failed restore is not the end of the run.
AfterFailureContinues(stage) == IF stage = "restore" THEN "persist" ELSE "idle"

\* Where the worker is after an exception reached download_and_install's
\* except branch (lines 532-535): at its end, whatever the stage.
AfterFailure(stage) == "idle"

\* Faulty variant of PostShowError: the except branch hands nothing to the
\* main thread.
PostShowErrorDropped(q) == q

\* self.root.after(0, lambda msg=error_message: self.show_error(msg)) (line
\* 535): show_error is queued for the main thread.
PostShowError(q) == Append(q, "show_error")

\* download_and_install's except branch (lines 532-535): the message is handed
\* to show_error on the main thread and the worker ends.
Raise(stage, msg) ==
    /\ pc' = AfterFailure(stage) /\ workers' = workers - 1
    /\ events' = PostShowError(events)
    /\ error_message' = msg
    /\ failStage' = stage

DownloadErrorMsg == {"Update failed", "Download failed"}
DownloadIncompleteMsg == DownloadErrorMsg \cup {"Download incomplete"}
InstallErrorMsg == {"Update failed", "Installation failed"}

\* lines 504-509: the file at cache_filepath exists, nothing is downloaded.
UseCached ==
    /\ alive /\ pc = "start"
    /\ CacheHit(cache, latest_version)
    /\ pc' = "install"
    /\ UNCHANGED <<alive, events, workers>> /\ UNCHANGED ui /\ UNCHANGED disk
    /\ UNCHANGED run

\* cache_dir.mkdir (line 497), then download_file up to open() (lines
\* 578-591): the request fails, or the
\* destination is created empty.
DownloadRequest ==
    /\ alive /\ pc = "start"
    /\ ~CacheHit(cache, latest_version)
    /\ cache_dir' = TRUE
    /\ downloaded' = TRUE
    /\ \/ /\ cache' = [cache EXCEPT ![latest_version] = "partial"]
          /\ pc' = "downloading"
          /\ UNCHANGED <<events, workers, error_message, failStage>>
       \/ /\ cache' = RemoveIncomplete(cache, latest_version)
          /\ Raise("download", DownloadErrorMsg)
    /\ UNCHANGED alive /\ UNCHANGED ui
    /\ UNCHANGED <<configFile, installation, temp_backup>>
    /\ UNCHANGED <<py7zr_bcj2, attempts, pre, outcome, pkg>>

\* download_file's streaming loop and size check (lines 592-613).
\*   "all"      every byte arrived;
\*   "error"    iter_content raised;
\*   "short"    the stream ended early: with a content-length the size check
\*              raises, without one (total_size = 0) the function returns.
DownloadStream ==
    /\ alive /\ pc = "downloading"
    /\ \E end \in {"all", "error", "short"}, has_length \in BOOLEAN :
         IF end = "all"
         THEN /\ cache' = [cache EXCEPT ![latest_version] = "complete"]
              /\ pc' = "install"
              /\ UNCHANGED <<events, workers, error_message, failStage>>
         ELSE IF end = "short" /\ ~has_length
         THEN /\ pc' = "install"
              /\ UNCHANGED <<cache, events, workers, error_message, failStage>>
         ELSE /\ cache' = RemoveIncomplete(cache, latest_version)
              /\ Raise("download", IF end = "short" THEN DownloadIncompleteMsg
                                   ELSE DownloadErrorMsg)
    /\ UNCHANGED alive /\ UNCHANGED ui
    /\ UNCHANGED <<configFile, cache_dir, installation, temp_backup>>
    /\ UNCHANGED <<py7zr_bcj2, attempts, pre, downloaded, outcome, pkg>>

\* install_update's except branch (lines 722-727): temp_backup is removed and
\* the exception goes on to download_and_install.
InstallRaise(stage, msg) ==
    /\ temp_backup' = EmptyTree
    /\ Raise(stage, msg)

\* install_update, backup of the preserve_folders (lines 623-644).
Backup ==
    /\ alive /\ pc = "install"
    /\ LET b == BackupFrom(1, installation, temp_backup) IN
         IF b.ok
         THEN /\ temp_backup' = b.hold
              /\ pc' = "py7zr"
              /\ UNCHANGED <<events, workers, error_message, failStage>>
         ELSE InstallRaise("backup", InstallErrorMsg)
    /\ UNCHANGED alive /\ UNCHANGED ui
    /\ UNCHANGED <<configFile, cache, cache_dir, installation>>
    /\ UNCHANGED <<py7zr_bcj2, attempts, pre, downloaded, outcome, pkg>>

\* lines 701-706: no backend set extraction_success.
ExtractionFailed ==
    /\ pkg' = NoPackage
    /\ InstallRaise("extract", ExtractionErrorMsg(py7zr_bcj2))

\* One backend runs on the archive holding pk: it writes into the
\* installation directory and succeeds or raises.
RunBackend(name, pk, o) ==
    /\ installation' = ExtractInto(installation, pk, o.W)
    /\ attempts' = Append(attempts, <<name, o.ok>>)

\* Faulty variant of AfterPy7zr: py7zr's exception is swallowed.
AfterPy7zrSwallowed(ok) == "restore"

\* Where the worker goes after py7zr (lines 652-661): extraction_success is
\* set, or the exception is caught and Method 2 is tried.
AfterPy7zr(ok) == IF ok THEN "restore" ELSE "probe"

\* Method 1, py7zr (lines 652-658), the first to open the archive.
ExtractPy7zr ==
    /\ alive /\ pc = "py7zr"
    /\ \E pk \in Packages : \E o \in BackendOutcomes(installation, pk) :
         /\ RunBackend("py7zr", pk, o)
         /\ pc' = AfterPy7zr(o.ok)
         /\ IF pc' = "restore"
            THEN py7zr_bcj2' = FALSE /\ pkg' = NoPackage
            ELSE py7zr_bcj2' \in BOOLEAN /\ pkg' = pk
    /\ UNCHANGED <<alive, events, workers>> /\ UNCHANGED ui
    /\ UNCHANGED <<configFile, cache, cache_dir, temp_backup>>
    /\ UNCHANGED <<error_message, pre, downloaded, outcome, failStage>>

\* Method 2, the probe for a 7z executable (lines 664-679): one is found,
\* none is found (the try block ends without raising), or the probe raises
\* something other than the three exceptions it catches.
Probe7z ==
    /\ alive /\ pc = "probe"
    /\ \E r \in {"found", "notfound", "error"} :
         IF r = "found"
         THEN /\ pc' = "7z"
              /\ UNCHANGED <<temp_backup, events, workers, error_message,
                             failStage, pkg>>
         ELSE IF r = "error"
         THEN /\ pc' = "zipfile"
              /\ UNCHANGED <<temp_backup, events, workers, error_message,
                             failStage, pkg>>
         ELSE ExtractionFailed
    /\ UNCHANGED alive /\ UNCHANGED ui
    /\ UNCHANGED <<configFile, cache, cache_dir, installation>>
    /\ UNCHANGED <<py7zr_bcj2, attempts, pre, downloaded, outcome>>

\* Faulty variant of After7z: the return code test is inverted.
After7zInverted(ok) == IF ok THEN "zipfile" ELSE "restore"

\* Where the worker goes after the 7z command returned (lines 686-692):
\* return code 0 sets extraction_success, anything else raises into Method 3.
After7z(ok) == IF ok THEN "restore" ELSE "zipfile"

\* Method 2, the 7z command (lines 680-689).
Extract7z ==
    /\ alive /\ pc = "7z"
    /\ \E o \in BackendOutcomes(installation, pkg) :
         /\ RunBackend("7z", pkg, o)
         /\ pc' = After7z(o.ok)
         /\ pkg' = IF pc' = "restore" THEN NoPackage ELSE pkg
         /\ py7zr_bcj2' = IF pc' = "restore" THEN FALSE ELSE py7zr_bcj2
    /\ UNCHANGED <<alive, events, workers>> /\ UNCHANGED ui
    /\ UNCHANGED <<configFile, cache, cache_dir, temp_backup>>
    /\ UNCHANGED <<error_message, pre, downloaded, outcome, failStage>>

\* Method 3, zipfile (lines 691-699), then the check of extraction_success.
ExtractZipfile ==
    /\ alive /\ pc = "zipfile"
    /\ \E o \in BackendOutcomes(installation, pkg) :
         /\ RunBackend("zipfile", pkg, o)
         /\ IF o.ok
            THEN /\ pc' = "restore" /\ pkg' = NoPackage
                 /\ py7zr_bcj2' = FALSE
                 /\ UNCHANGED <<temp_backup, events, workers, error_message,
                                failStage>>
            ELSE ExtractionFailed /\ UNCHANGED py7zr_bcj2
    /\ UNCHANGED alive /\ UNCHANGED ui
    /\ UNCHANGED <<configFile, cache, cache_dir>>
    /\ UNCHANGED <<pre, downloaded, outcome>>

\* install_update, restore of the backups and removal of temp_backup
\* (lines 708-720).
Restore ==
    /\ alive /\ pc = "restore"
    /\ \E in_use \in BOOLEAN :
       LET r == RestoreFrom(1, installation, temp_backup, in_use) IN
         /\ installation' = r.inst
         /\ IF r.ok
            THEN /\ temp_backup' = EmptyTree
                 /\ pc' = "persist"
                 /\ UNCHANGED <<events, workers, error_message, failStage>>
            ELSE InstallRaise("restore", InstallErrorMsg)
    /\ UNCHANGED alive /\ UNCHANGED ui
    /\ UNCHANGED <<configFile, cache, cache_dir>>
    /\ UNCHANGED <<py7zr_bcj2, attempts, pre, downloaded, outcome, pkg>>

\* lines 518-519 and save_config's open("config.json", "w") (line 91): the
\* new version is stored in self.config and config.json is truncated.
Persist ==
    /\ alive /\ pc = "persist"
    /\ config' = latest_version
    /\ configFile' = Truncated
    /\ pc' = "save_config"
    /\ UNCHANGED <<alive, update_available, latest_version, download_url,
                   update_button, launch_button, status_label, checking,
                   events, workers>>
    /\ UNCHANGED <<cache, cache_dir, installation, temp_backup>>
    /\ UNCHANGED run

\* save_config's json.dump and the close of the file (lines 91-92).
SaveConfig ==
    /\ alive /\ pc = "save_config"
    /\ configFile' = config
    /\ pc' = "cleanup"
    /\ UNCHANGED <<alive, events, workers>> /\ UNCHANGED ui
    /\ UNCHANGED <<cache, cache_dir, installation, temp_backup>>
    /\ UNCHANGED run

\* lines 523-530: prune the cache keeping the current version, then hand
\* update_complete to the main thread.
Cleanup ==
    /\ alive /\ pc = "cleanup"
    /\ cache' = CleanupCache(cache, latest_version, TRUE)
    /\ cache_dir' = CleanupCacheDir(cache, cache_dir, latest_version, TRUE)
    /\ events' = Append(events, "update_complete")
    /\ pc' = "idle" /\ workers' = workers - 1
    /\ UNCHANGED alive /\ UNCHANGED ui
    /\ UNCHANGED <<configFile, installation, temp_backup>>
    /\ UNCHANGED run

Next ==
    \/ Start \/ CheckThreadOk \/ CheckThreadFails \/ CheckFailedStatus
    \/ UpdateUiAfterCheck
    \/ StartUpdate \/ UpdateComplete \/ ShowError \/ Quit \/ UserEdit
    \/ UseCached \/ DownloadRequest \/ DownloadStream \/ Backup
    \/ ExtractPy7zr \/ Probe7z \/ Extract7z \/ ExtractZipfile
    \/ Restore \/ Persist \/ SaveConfig \/ Cleanup \/ LaunchGame

Spec == Init /\ [][Next]_vars

\* ---- types ----
TypeOK ==
    /\ alive \in BOOLEAN
    /\ configFile \in 0..MaxVersion \cup {Truncated}
    /\ cache \in [FeedVersions -> CacheStates]
    /\ cache_dir \in BOOLEAN
    /\ (\E v \in FeedVersions : cache[v] # "none") => cache_dir
    /\ installation \in Trees /\ temp_backup \in Trees /\ pre \in Trees
    /\ pkg \in Packages
    /\ config \in 0..MaxVersion
    /\ update_available \in BOOLEAN
    /\ latest_version \in FeedVersions \cup {NoVersion}
    /\ download_url \in FeedVersions \cup {NoVersion}
    /\ update_button \in {"normal", "disabled"}
    /\ checking \in BOOLEAN
    /\ pc \in {"idle", "start", "downloading", "install", "py7zr", "probe",
               "7z", "zipfile", "restore", "persist", "save_config",
               "cleanup"}
    /\ launch_button \in {"normal", "disabled"}
    /\ status_label \in {"", "Checking for updates", "Failed to check for updates",
                          "New update available", "You're up to date",
                          "Update completed", "Error"}
    /\ workers \in 0..1
    /\ outcome \in {"none", "running", "complete", "failed"}
    /\ failStage \in {"none", "download", "backup", "extract", "restore"}
    /\ update_button = "normal" => pc = "idle"

\* ---- the version check on version strings ----
\* In Spec a version is its rank among the releases.  SpecVersion runs the
\* check (check_thread, then update_ui_after_check) on the strings themselves:
\* a string is the sequence of its characters, the dots left out, each number
\* one character.
Numerals == {ToString(n) : n \in 0..MaxPart}
VersionStrings == [1..3 -> Numerals]
Tags == {lead \o rel : lead \in {<<>>, <<"v">>, <<"v", "v">>},
                       rel \in VersionStrings}

\* str.lstrip("v") (line 446): every leading "v" is removed.
RECURSIVE Lstrip(_)
Lstrip(str) ==
    IF str # <<>> /\ Head(str) = "v" THEN Lstrip(Tail(str)) ELSE str

\* version.parse (lines 468-469): the release numbers of the string.
VersionParse(str) ==
    [i \in 1..Len(str) |-> CHOOSE n \in 0..MaxPart : ToString(n) = str[i]]

\* Faulty variant of ReleaseGreater: an equal version counts as newer.
ReleaseGreaterOrEqual(a, b) == a = b \/ \E i \in 1..3 :
    a[i] > b[i] /\ \A j \in 1..(i - 1) : a[j] = b[j]

\* latest_ver > current_ver (line 471): packaging compares the release
\* numbers from the left, the first that differs decides.
ReleaseGreater(a, b) == \E i \in 1..3 :
    a[i] > b[i] /\ \A j \in 1..(i - 1) : a[j] = b[j]

\* Everything but the state of the check stays as __init__ left it.
VInit ==
    /\ alive = TRUE /\ checking = TRUE
    /\ config \in VersionStrings
    /\ update_available = FALSE
    /\ latest_version = NoVersion /\ download_url = NoVersion
    /\ update_button = "disabled" /\ launch_button = "normal"
    /\ status_label = "Checking for updates"
    /\ events = <<>> /\ pc = "idle" /\ workers = 0
    /\ error_message = {} /\ py7zr_bcj2 = FALSE /\ attempts = <<>>
    /\ pre = EmptyTree /\ downloaded = FALSE
    /\ outcome = "none" /\ failStage = "none" /\ pkg = NoPackage
    /\ configFile = 0 /\ cache = EmptyCache /\ cache_dir = FALSE
    /\ installation = EmptyTree /\ temp_backup = EmptyTree

\* check_thread (lines 439-455) on the feed's tag_name.
VCheckThread ==
    /\ alive /\ checking
    /\ \E tag \in Tags, hasAsset \in BOOLEAN :
         /\ latest_version' = Lstrip(tag)
         /\ download_url' = IF hasAsset THEN tag ELSE download_url
    /\ events' = Append(events, "update_ui_after_check")
    /\ checking' = FALSE
    /\ UNCHANGED <<alive, config, update_available, update_button,
                   launch_button, status_label, pc, workers>>
    /\ UNCHANGED disk /\ UNCHANGED run

\* update_ui_after_check (lines 464-477) on the version strings.
VUpdateUiAfterCheck ==
    /\ alive /\ events # <<>> /\ Head(events) = "update_ui_after_check"
    /\ events' = Tail(events)
    /\ IF ReleaseGreater(VersionParse(latest_version), VersionParse(config))
       THEN /\ update_available' = TRUE /\ update_button' = "normal"
            /\ status_label' = "New update available"
       ELSE /\ update_available' = update_available
            /\ update_button' = "disabled"
            /\ status_label' = "You're up to date"
    /\ UNCHANGED <<alive, config, latest_version, download_url, launch_button,
                   checking, pc, workers>>
    /\ UNCHANGED disk /\ UNCHANGED run

VNext == VCheckThread \/ VUpdateUiAfterCheck

SpecVersion == VInit /\ [][VNext]_vars

\* ---- the settings dialog during a run ----
\* In Spec the installation path is the one configured when the process
\* started.  SpecSettings follows config["installation_path"] through a run
\* while the settings dialog, which stays available, saves another path.
\* Here config and configFile hold the installation_path of self.config and
\* of config.json, pre holds the installation_path in effect when start_update
\* ran, and installation holds the directory install_update works in (its
\* local installation_path), NoPath before install_update has read it.
Paths == 1..NumPaths
NoPath == 0

\* The check has found a newer version with an asset; its archive may be in
\* the cache already.
SInit ==
    /\ alive = TRUE /\ checking = FALSE
    /\ config \in Paths /\ configFile = config
    /\ update_available = TRUE
    /\ latest_version \in FeedVersions /\ download_url = latest_version
    /\ update_button = "normal" /\ launch_button = "normal"
    /\ status_label = "New update available"
    /\ events = <<>> /\ pc = "idle" /\ workers = 0
    /\ error_message = {} /\ py7zr_bcj2 = FALSE /\ attempts = <<>>
    /\ pre = NoPath /\ downloaded = FALSE
    /\ outcome = "none" /\ failStage = "none" /\ pkg = NoPackage
    /\ cache \in [FeedVersions -> {"none", "complete"}]
    /\ cache_dir = (\E v \in FeedVersions : cache[v] # "none")
    /\ installation = NoPath /\ temp_backup = EmptyTree

\* start_update (lines 479-490): nothing of self.config is copied for the
\* worker.
SStartUpdate ==
    /\ alive /\ update_button = "normal"
    /\ StartUpdateGuard(update_available, download_url)
    /\ update_button' = StartUpdateButton
    /\ launch_button' = StartUpdateLaunchButton
    /\ pc' = "start" /\ workers' = workers + 1
    /\ pre' = config
    /\ installation' = NoPath
    /\ outcome' = "running"
    /\ error_message' = {} /\ py7zr_bcj2' = FALSE /\ attempts' = <<>>
    /\ downloaded' = FALSE /\ failStage' = "none"
    /\ pkg' = NoPackage
    /\ UNCHANGED <<alive, config, update_available, latest_version,
                   download_url, status_label, checking, events>>
    /\ UNCHANGED <<configFile, cache, cache_dir, temp_backup>>

\* validate_and_save (lines 186-209), the Save button of the settings dialog
\* opened from the main window (line 346): another valid installation
\* directory is stored in self.config and written to config.json.
ValidateAndSave ==
    /\ alive
    /\ \E path \in Paths :
         /\ config' = path
         /\ configFile' = path
    /\ UNCHANGED <<alive, update_available, latest_version, download_url,
                   update_button, launch_button, status_label, checking,
                   events, pc, workers>>
    /\ UNCHANGED <<cache, cache_dir, installation, temp_backup>>
    /\ UNCHANGED run

\* install_update reads self.config["installation_path"] (line 623) and backs
\* up, extracts and restores below that directory.
SInstallUpdate ==
    /\ alive /\ pc = "install"
    /\ installation' = config
    /\ pc' = "py7zr"
    /\ UNCHANGED <<alive, events, workers>> /\ UNCHANGED ui
    /\ UNCHANGED <<configFile, cache, cache_dir, temp_backup>>
    /\ UNCHANGED run

\* The rest of install_update and of download_and_install: the run ends with
\* update_complete or with show_error queued.
SInstallEnds ==
    /\ alive /\ pc = "py7zr"
    /\ \/ /\ pc' = "idle" /\ workers' = workers - 1
          /\ events' = Append(events, "update_complete")
          /\ UNCHANGED <<error_message, failStage>>
       \/ Raise("extract", ExtractionErrorMsg(FALSE))
    /\ UNCHANGED alive /\ UNCHANGED ui
    /\ UNCHANGED disk
    /\ UNCHANGED <<py7zr_bcj2, attempts, pre, downloaded, outcome, pkg>>

SNext ==
    \/ SStartUpdate \/ ValidateAndSave
    \/ UseCached \/ DownloadRequest \/ DownloadStream
    \/ SInstallUpdate \/ SInstallEnds
    \/ UpdateComplete \/ ShowError

SpecSettings == SInit /\ [][SNext]_vars

\* ---- one lifetime of the process, with its threads scheduled ----
\* The window stays open: the check has found a newer version with an asset
\* and the user starts runs, again after a failed one.
LInit ==
    /\ alive = TRUE /\ checking = FALSE
    /\ config = 0 /\ configFile = 0
    /\ update_available = TRUE
    /\ latest_version \in FeedVersions /\ VersionGreater(latest_version, config)
    /\ download_url = latest_version
    /\ update_button = "normal" /\ launch_button = "normal"
    /\ status_label = "New update available"
    /\ events = <<>> /\ pc = "idle" /\ workers = 0
    /\ error_message = {} /\ py7zr_bcj2 = FALSE /\ attempts = <<>>
    /\ pre = EmptyTree /\ downloaded = FALSE
    /\ outcome = "none" /\ failStage = "none" /\ pkg = NoPackage
    /\ cache = EmptyCache /\ cache_dir = FALSE
    /\ installation \in [PreserveFolders -> UserNodes]
    /\ temp_backup = EmptyTree

\* The steps of the thread started at line 490.
Worker ==
    \/ UseCached \/ DownloadRequest \/ DownloadStream \/ Backup
    \/ ExtractPy7zr \/ Probe7z \/ Extract7z \/ ExtractZipfile
    \/ Restore \/ Persist \/ SaveConfig \/ Cleanup

\* The callbacks queued with self.root.after(0, ...), run by mainloop (line
\* 772).
MainLoop == UpdateComplete \/ ShowError

LNext == StartUpdate \/ Worker \/ MainLoop

\* The operating system keeps scheduling the worker thread, and the main
\* loop keeps running the callbacks queued for it; the user's clicks are
\* not forced.
SpecLive == LInit /\ [][LNext]_vars /\ WF_vars(Worker) /\ WF_vars(MainLoop)

\* ======================= claims =======================

\* C1: after every update run that reaches Complete, each preserve path that
\* existed in the installation directory when the run began holds exactly its
\* pre-update content.
C1_PreservedAfterComplete ==
    outcome = "complete" =>
        \A p \in PreserveFolders : Exists(pre[p]) => installation[p] = pre[p]

\* C2: if every extraction backend fails, every preserved path holds after
\* the run has ended in Failed what it held before the run began.
C2_PreservedAfterExtractionFailure ==
    (outcome = "failed" /\ failStage = "extract") =>
        \A p \in PreserveFolders : installation[p] = pre[p]

C5_CacheHitOnlyComplete ==
    (pc = "install" /\ ~downloaded) => cache[latest_version] = "complete"

\* C6: when the archive of the latest version is complete in the cache at the
\* start of a run (left by an earlier run), the run performs no download and
\* goes directly to installation.
C6_NoDownloadWhenCached ==
    [][(pc = "start" /\ pc' # "start" /\ alive'
          /\ cache[latest_version] = "complete")
       => (pc' = "install" /\ ~downloaded' /\ cache' = cache)]_vars

\* The run at hand did not download: the complete archive it hands to
\* install_update was left by an earlier run.
C6_Witness ==
    /\ pc = "install" /\ ~downloaded
    /\ cache[latest_version] = "complete"

\* C7: a backup immediately followed by a restore, nothing changing the
\* installation directory in between, leaves every preserved path with the
\* files and contents it had (stated where install_update is about to back up).
C7_BackupRestoreIdentity ==
    pc = "install" =>
        LET b == BackupFrom(1, installation, temp_backup) IN
          b.ok => RestoreFrom(1, installation, b.hold, FALSE)
                    = [ok |-> TRUE, inst |-> installation]

\* C8: extraction is declared failed only after py7zr, the 7z command and
\* zipfile have been attempted in that order and each has failed.
C8_AllBackendsAttempted ==
    failStage = "extract" =>
        attempts = <<<<"py7zr", FALSE>>, <<"7z", FALSE>>, <<"zipfile", FALSE>>>>

FirstFailedSecondOk ==
    /\ Len(attempts) = 2
    /\ attempts[1] = <<"py7zr", FALSE>> /\ attempts[2] = <<"7z", TRUE>>

\* C10: when py7zr fails and the 7z command succeeds, the run goes on to
\* restore and finalize: it is never Failed in extraction (only a restore
\* that itself raises can fail it), and once the worker has finished without
\* a failure the new version is persisted.
C10_SecondBackendCompletes ==
    FirstFailedSecondOk =>
        /\ pc \in {"restore", "persist", "save_config", "cleanup", "idle"}
        /\ failStage \in {"none", "restore"}
        /\ outcome = "failed" => failStage = "restore"
        /\ (pc = "idle" /\ failStage = "none") =>
              configFile = latest_version /\ config = latest_version

C10_Witness ==
    /\ FirstFailedSecondOk /\ outcome = "complete"
    /\ configFile = latest_version

\* update_ui_after_check has run and start_update has not been invoked since.
CheckDone ==
    /\ alive /\ latest_version # NoVersion /\ ~checking
    /\ events = <<>> /\ outcome = "none"

\* C12: update_available is set and the update button enabled if and only if
\* the feed's version is newer than the local one and an asset ending in
\* ".7z" was found.
C12_UpdateAvailableIffNewerAndAsset ==
    /\ (update_available /\ update_button = "normal") =>
          (VersionGreater(latest_version, config) /\ download_url # NoVersion)
    /\ (CheckDone /\ VersionGreater(latest_version, config)
          /\ download_url # NoVersion) =>
          (update_available /\ update_button = "normal")

\* C13: when the feed's version is newer and no asset name ends in ".7z",
\* the outcome of the check is a failure, not UpdateAvailable (and not
\* UpToDate).
C13_MissingAssetNotAvailable ==
    (CheckDone /\ VersionGreater(latest_version, config)
       /\ download_url = NoVersion) =>
        ~(update_available /\ update_button = "normal")

\* C14: a download_and_install worker is started only by start_update, invoked
\* with the button enabled while an update is available (newer version and an
\* asset); outside such a run the running program changes nothing in the
\* cache, the installation or temp_backup, also when the archive is cached.
C14_StartOnlyOnConfirmation ==
    [][/\ (pc = "idle" /\ pc' # "idle") =>
            /\ update_button = "normal" /\ update_available
            /\ download_url # NoVersion
            /\ pc' = "start" /\ workers' = workers + 1
       /\ (alive /\ <<cache, installation, temp_backup>>'
                      # <<cache, installation, temp_backup>>) =>
            outcome = "running"]_vars

\* The check found a newer version whose archive is already in the cache, and
\* nothing was started.
C14_Witness ==
    /\ CheckDone /\ update_available /\ update_button = "normal"
    /\ download_url # NoVersion
    /\ cache[latest_version] = "complete" /\ pc = "idle" /\ workers = 0

\* The backend that ran last set extraction_success.
LastAttemptOk == attempts # <<>> /\ attempts[Len(attempts)][2]

\* C15: config.json is written only by the persist step, which starts only
\* after a backend has succeeded and the restore has succeeded; after a run
\* that failed in download, backup, extraction or restore config.json holds
\* the version it held when the process loaded it.
C15_PersistOnlyAfterRestore ==
    [][/\ (pc' = "persist" /\ pc # "persist") =>
            /\ pc = "restore" /\ LastAttemptOk
            /\ RestoreFrom(1, installation, temp_backup, FALSE).ok
       /\ configFile' # configFile => pc \in {"persist", "save_config"}
       /\ failStage' \in {"download", "backup", "extract", "restore"} =>
            /\ configFile' = configFile /\ configFile' = config'
            /\ VersionGreater(latest_version', configFile')]_vars

C15_Witness ==
    /\ pc = "cleanup" /\ configFile = latest_version /\ LastAttemptOk
    /\ temp_backup = EmptyTree

\* C16: at most one download_and_install worker exists at any time, and while
\* one exists the update button is disabled, so start_update cannot be
\* invoked.
C16_SingleWorker ==
    /\ workers <= 1
    /\ workers = 1 <=> pc # "idle"
    /\ pc # "idle" => update_button = "disabled"

\* A retry is possible (the earlier run failed) and a run is in progress.
C16_Witness ==
    /\ workers = 1 /\ pc = "downloading" /\ update_button = "disabled"
    /\ temp_backup = EmptyTree /\ \E v \in FeedVersions : cache[v] = "partial"

\* C17: when a stage has failed the worker is at its end and nothing of the
\* run executes afterwards: after a download failure no backup and no
\* extraction has run, after an extraction or restore failure config.json is
\* not written and update_complete is not queued, and no file changes until
\* another run is started.
C17_NoStageAfterFailure ==
    [][/\ failStage' # "none" =>
            /\ pc' = "idle"
            /\ \A i \in 1..Len(events') : events'[i] # "update_complete"
            /\ configFile' = config'
       /\ failStage' \in {"download", "backup"} =>
            attempts' = <<>> /\ installation' = pre'
       /\ (failStage # "none" /\ failStage' # "none") =>
            /\ UNCHANGED <<configFile, cache, cache_dir, installation,
                           temp_backup>>
            /\ attempts' = attempts]_vars

C17_Witness ==
    /\ failStage = "restore" /\ outcome = "failed" /\ pc = "idle"
    /\ configFile = config /\ cache[latest_version] # "none"

\* C18: after a run has failed in extraction or in restore, temp_backup still
\* holds the backup of every preserved directory that was backed up.
C18_BackupKeptAfterFailure ==
    (outcome = "failed" /\ failStage \in {"extract", "restore"}) =>
        \A p \in PreserveFolders :
            pre[p].kind = "dir" => Exists(temp_backup[p])

\* C19: a step that deletes a cache file is either the prune of a run that
\* succeeded (the worker's cleanup or update_complete), or download_file
\* deleting the partial file it was writing for the version being fetched: a
\* run that fails deletes nothing else.
C19_FailedRunKeepsCache ==
    [][\A v \in FeedVersions :
          (alive' /\ cache[v] # "none" /\ cache'[v] = "none") =>
             \/ pc = "cleanup" /\ failStage' = "none"
             \/ outcome' = "complete" /\ failStage' = "none"
             \/ /\ v = latest_version /\ cache[v] = "partial"
                /\ pc = "downloading" /\ failStage' = "download"]_vars

\* A download failed while the cache held the archive of another version.
C19_Witness ==
    /\ failStage = "download" /\ cache[latest_version] = "none"
    /\ \E v \in FeedVersions \ {latest_version} : cache[v] = "complete"

\* C20: config.json is never observable partially written: when the process
\* has stopped, also during the persist step, it holds a full configuration.
C20_ConfigNeverPartial ==
    ~alive => configFile # Truncated

\* major.minor.patch ordering of two parsed versions.
SemverGreater(a, b) ==
    \/ a[1] > b[1]
    \/ a[1] = b[1] /\ a[2] > b[2]
    \/ a[1] = b[1] /\ a[2] = b[2] /\ a[3] > b[3]

\* update_ui_after_check has run on the feed's answer.
VCheckDone == ~checking /\ events = <<>>

\* C11: once the check has run, the feed's version is held without its
\* leading "v"; update_available is set and the update button enabled when
\* it is strictly greater than the local version in major.minor.patch order,
\* and update_available is unset and the button disabled when it is equal or
\* older.
C11_CheckFollowsVersionOrder ==
    VCheckDone =>
        /\ latest_version \in VersionStrings
        /\ IF SemverGreater(VersionParse(latest_version), VersionParse(config))
           THEN update_available /\ update_button = "normal"
           ELSE ~update_available /\ update_button = "disabled"

\* The feed's version equals the local one and differs from 0.0.0: up to date.
C11_Witness ==
    /\ VCheckDone /\ latest_version = config
    /\ config # [i \in 1..3 |-> "0"]
    /\ ~update_available /\ update_button = "disabled"

\* C21: the backup succeeds whatever the preserved paths are (directory,
\* single file or absent): every path that exists is then in temp_backup in
\* the same form, and an absent path makes nothing fail.
C21_BackupAnyPathKind ==
    pc = "install" =>
        LET b == BackupFrom(1, installation, temp_backup) IN
          /\ b.ok
          /\ \A p \in PreserveFolders :
                Exists(installation[p]) =>
                    b.hold[p].kind = installation[p].kind

\* C23: a backend that failed leaves nothing it wrote in the installation
\* directory: as long as the backend that ran last has failed, the preserved
\* paths of the installation directory are as they were when the run began.
C23_FailedBackendWritesNothing ==
    (attempts # <<>> /\ ~LastAttemptOk) => installation = pre

\* What a preserved path held before the run (pre_p) is still there in node n:
\* the same file, or a directory with every file pre_p had, unchanged.
ContentKept(pre_p, n) ==
    /\ n.kind = pre_p.kind
    /\ n.val = pre_p.val
    /\ \A f \in Files : pre_p.files[f] # "none" => n.files[f] = pre_p.files[f]

\* C27: from the start of a run on, also after a failure of extraction or of
\* restore, what every preserved path held before the run exists in the
\* installation directory or in temp_backup.
C27_PreservedContentNeverLost ==
    outcome \in {"running", "complete", "failed"} =>
        \A p \in PreserveFolders :
            Exists(pre[p]) =>
                \/ ContentKept(pre[p], installation[p])
                \/ ContentKept(pre[p], temp_backup[p])

\* C28: temp_backup holds only what the run at hand has copied into it, so
\* that a completed run has restored no user file that was not in the
\* installation directory when the run began.
C28_HoldingAreaOfThisRunOnly ==
    /\ pc \in {"py7zr", "probe", "7z", "zipfile", "restore"} =>
          \A p \in PreserveFolders :
              temp_backup[p] = IF Exists(pre[p]) THEN pre[p] ELSE Absent
    /\ outcome = "complete" =>
          \A p \in PreserveFolders : \A f \in Files :
              (installation[p].kind = "dir"
                 /\ installation[p].files[f] = "user") =>
                  (pre[p].kind = "dir" /\ pre[p].files[f] = "user")

\* C29: from start_update until update_complete or show_error has run, the
\* launch button is disabled, and launch_game is never run in between.
C29_LaunchDisabledDuringRun ==
    /\ (alive /\ (pc # "idle" \/ outcome = "running")) =>
          launch_button = "disabled"
    /\ workers > 0 => launch_button = "disabled"

\* The worker has ended in a failure and show_error has not run yet: the
\* launch button is still disabled.
C29_Witness ==
    /\ alive /\ outcome = "running" /\ pc = "idle" /\ failStage # "none"
    /\ events # <<>> /\ launch_button = "disabled"

C24_RunUsesPathAtStart ==
    (outcome = "running" /\ installation # NoPath) => installation = pre

\* The callbacks of a run that wait in the main thread's queue.
RunEvents == {i \in 1..Len(events) :
                events[i] \in {"update_complete", "show_error"}}

\* C26: every run started by start_update eventually ends, Complete
\* (update_complete delivered) or Failed (show_error delivered), and in
\* exactly one of them: while the run goes on either its worker lives or one
\* callback of it waits, never both and never two; once it has ended no
\* worker and no callback is left.
C26_RunEnds ==
    /\ [](/\ outcome = "running" => workers + Cardinality(RunEvents) = 1
          /\ outcome \in {"complete", "failed"} =>
                workers + Cardinality(RunEvents) = 0)
    /\ (outcome = "running") ~> (outcome \in {"complete", "failed"})

\* A second run, started after a failed one and using the cached archive, has
\* ended Complete.
C26_Witness ==
    /\ outcome = "complete" /\ ~downloaded
    /\ workers = 0 /\ events = <<>> /\ pc = "idle"
====
